---- MODULE Spec2Model ----
(***************************************************************************)
(* Model of the poll-until-valid engine useThunkPoll                       *)
(* (src/src/hooks/useThunkPoll.js): a React hook built from a reducer, a   *)
(* set of refs, an effect keyed on isPollingJobActive and a promise chain. *)
(*                                                                         *)
(* state     the reducer state with every dispatched action applied (the   *)
(*           value the next render will show)                              *)
(* stateRef  stateRef.current: the state of the last committed render,     *)
(*           which is also the snapshot the caller reads                   *)
(* A render (Render, Rerender) commits state, runs the effects in          *)
(* declaration order and so runs performPoll when isPollingJobActive       *)
(* changed to true.  Dispatched actions are applied at the next render, so *)
(* stateRef lags behind state in between; promise continuations may run in *)
(* that window, a timer callback runs after the render React has already   *)
(* scheduled (the reducer dispatch precedes setTimeout in the code).       *)
(***************************************************************************)
EXTENDS Integers, FiniteSets, Sequences, TLC

\* ---------------------------------------------------------------- bounds
MaxMaxAttempts == 2     \* largest maxAttempts the caller supplies
MaxCount == 3           \* cap on the counters (attempts counted, dispatched)
MaxPosts == 103         \* longest posts array passed to the posts validator
MaxDetails == 2         \* longest array passed to the details validator
MaxBodyLen == 2         \* longest body text of a post
MaxChains == 2          \* cap on polling chains alive at once: each is an
                        \* unsettled async action or a pending timer

\* ------------------------------------------------------------ data model
Null == "null"
NoBudget == 0 - 1       \* maxAttempts null / undefined

MaxAttemptsValues == {NoBudget} \cup (1..MaxMaxAttempts)

\* payloads the async action may resolve with
Payloads == {"good", "bad", "poison"}

\* validators the caller may supply: each maps a payload to
\* "true", "false" or "throws"
Thunks == {"fetchPosts", "fetchPostDetails"}
Validators == {"acceptsGood", "acceptsNone"}

validator(v, payload) ==
    IF payload = "poison" THEN "throws"
    ELSE IF v = "acceptsGood" /\ payload = "good" THEN "true"
    ELSE "false"

\* values of lastResult / of a settled promise
NullResult == [kind |-> "null", val |-> "-"]
Undefined == [kind |-> "undefined", val |-> "-"]
Wrapper(p) == [kind |-> "result", val |-> p]
ErrorWrapper(e) == [kind |-> "error", val |-> e]

\* how a dispatched async action may settle
Outcomes ==
    {[settle |-> "resolved", value |-> Wrapper(p)] : p \in Payloads}
    \cup {[settle |-> "resolved", value |-> Undefined],
          [settle |-> "rejected", value |-> ErrorWrapper("NetworkError")]}

ActionTypes == {"START_POLLING", "STOP_POLLING", "POLL_INIT", "POLL_RESULT",
                "VALIDATION_SUCCESS", "MAX_ATTEMPTS_REACHED"}

\* mutant: the job is active from the first render
initialState_selfStart ==
    [isPollingJobActive |-> TRUE, isPolling |-> FALSE, attemptCount |-> 0,
     lastResult |-> NullResult, validationStatus |-> Null]

initialState ==
    [isPollingJobActive |-> FALSE,
     isPolling |-> FALSE,
     attemptCount |-> 0,
     lastResult |-> NullResult,
     validationStatus |-> Null]

\* ------------------------------------------------------ reducer, by case
\* mutant: spreads the previous state instead of initialState
START_POLLING_keepsState(s) == [s EXCEPT !.isPollingJobActive = TRUE]

\* mutant: start() marks an attempt as running already
START_POLLING_polling(s) ==
    [initialState EXCEPT !.isPollingJobActive = TRUE, !.isPolling = TRUE]

START_POLLING(s) == [initialState EXCEPT !.isPollingJobActive = TRUE]

\* mutant: leaves isPolling as it was
STOP_POLLING_keepsPolling(s) == [s EXCEPT !.isPollingJobActive = FALSE]

\* mutant: clears isPolling but leaves the job active
STOP_POLLING_keepsActive(s) == [s EXCEPT !.isPolling = FALSE]

STOP_POLLING(s) == [s EXCEPT !.isPollingJobActive = FALSE, !.isPolling = FALSE]

POLL_INIT(s) == [s EXCEPT !.isPolling = TRUE]

\* mutant: leaves isPolling set after the result
POLL_RESULT_keepsPolling(s, payload) ==
    [s EXCEPT !.lastResult = payload, !.attemptCount = s.attemptCount + 1]

POLL_RESULT(s, payload) ==
    [s EXCEPT !.isPolling = FALSE,
              !.lastResult = payload,
              !.attemptCount = s.attemptCount + 1]

VALIDATION_SUCCESS(s) ==
    [s EXCEPT !.isPollingJobActive = FALSE, !.validationStatus = "success"]

\* mutant: reports the exhaustion but leaves the job active
MAX_ATTEMPTS_REACHED_keepsActive(s) ==
    [s EXCEPT !.validationStatus = "max_attempts_reached"]

MAX_ATTEMPTS_REACHED(s) ==
    [s EXCEPT !.isPollingJobActive = FALSE,
              !.validationStatus = "max_attempts_reached"]

\* default: throw new Error(`Unhandled action type: ${action.type}`)
Unhandled(type) == [error |-> "Unhandled action type", type |-> type]

\* mutant: an unknown action leaves the state as it is, silently
pollingReducer_lenient(s, action) ==
    CASE action.type = "START_POLLING" -> START_POLLING(s)
      [] action.type = "STOP_POLLING" -> STOP_POLLING(s)
      [] action.type = "POLL_INIT" -> POLL_INIT(s)
      [] action.type = "POLL_RESULT" -> POLL_RESULT(s, action.payload)
      [] action.type = "VALIDATION_SUCCESS" -> VALIDATION_SUCCESS(s)
      [] action.type = "MAX_ATTEMPTS_REACHED" -> MAX_ATTEMPTS_REACHED(s)
      [] OTHER -> s

pollingReducer(s, action) ==
    CASE action.type = "START_POLLING" -> START_POLLING(s)
      [] action.type = "STOP_POLLING" -> STOP_POLLING(s)
      [] action.type = "POLL_INIT" -> POLL_INIT(s)
      [] action.type = "POLL_RESULT" -> POLL_RESULT(s, action.payload)
      [] action.type = "VALIDATION_SUCCESS" -> VALIDATION_SUCCESS(s)
      [] action.type = "MAX_ATTEMPTS_REACHED" -> MAX_ATTEMPTS_REACHED(s)
      [] OTHER -> Unhandled(action.type)

Act(t) == [type |-> t, payload |-> NullResult]
ActWith(t, p) == [type |-> t, payload |-> p]

\* ------------------------------------------------------------- variables
VARIABLES
    state,           \* reducer state, all dispatched actions applied
    stateRef,        \* stateRef.current = state of the last committed render
    thunkActionRef,  \* thunkActionRef.current
    maxAttemptsRef,  \* maxAttemptsRef.current
    validatorRef,    \* validatorRef.current
    timeoutRef,      \* timeoutRef.current: "null", or the timer it names is
                     \* "pending", or "spent" (fired or cleared)
    orphanTimers,    \* pending timers timeoutRef.current no longer names
    inflight,        \* unsettled async actions: own = dispatched since the
                     \* last start(), stale = dispatched before it
    mounted,         \* the owning component is mounted
    op,              \* the step taken last
    hist,            \* bookkeeping about the run (not read by the program)
    call,            \* the pure function called last, with its arguments
    ret              \* what that call returned or threw

vars == <<state, stateRef, thunkActionRef, maxAttemptsRef, validatorRef, timeoutRef,
          orphanTimers, inflight, mounted, op, hist, call, ret>>

\* the parameters a caller passes: each adapter pairs its async action with
\* the validator of that action's payload, and picks a budget
Adapters ==
    {[thunkAction |-> "fetchPosts", validator |-> "acceptsGood"],
     [thunkAction |-> "fetchPostDetails", validator |-> "acceptsNone"]}
Params ==
    {[thunkAction |-> ad.thunkAction, validator |-> ad.validator,
      maxAttempts |-> m] : ad \in Adapters, m \in MaxAttemptsValues}

\* mutant: dispatches the action the hook was first given
dispatch_captured(a, v) == [thunk |-> "fetchPosts", validator |-> v]

\* dispatch(thunkActionRef.current): the action dispatched, and the validator
\* that was current at that moment
dispatch(a, v) == [thunk |-> a, validator |-> v]
NoDispatch == dispatch("none", "none")

NoCall == [fn |-> "none"]
NoReturn == [kind |-> "none"]

InflightCount == inflight.own + inflight.stale

PendingTimers == orphanTimers + (IF timeoutRef = "pending" THEN 1 ELSE 0)

Init ==
    /\ state = initialState
    /\ stateRef = initialState
    /\ \E p \in Params :
          /\ thunkActionRef = p.thunkAction
          /\ maxAttemptsRef = p.maxAttempts
          /\ validatorRef = p.validator
    /\ timeoutRef = "null"
    /\ orphanTimers = 0
    /\ inflight = [own |-> 0, stale |-> 0]
    /\ mounted = TRUE
    /\ op = "init"
    /\ hist = [run |-> "never",       \* "never" started, "single": started
                                      \* once and not stopped, "double":
                                      \* started twice in a row, "unsent":
                                      \* then stopped before any dispatch,
                                      \* else "other"
               dispatched |-> 0,      \* async actions dispatched since start()
               settled |-> 0,         \* async actions settled since start()
               refusedOnly |-> TRUE,  \* no payload accepted, nothing thrown
               paramsChanged |-> FALSE,
               sent |-> NoDispatch,   \* the latest dispatch(...), while
                                      \* something is unsettled
               stopWaiting |-> FALSE] \* stop() hit the interval wait
    /\ call = NoCall
    /\ ret = NoReturn

\* dispatchAction: the reducer runs only while the component is mounted
dispatchAction(s, action) == IF mounted THEN pollingReducer(s, action) ELSE s

\* clearTimeout(timeoutRef.current), guarded by if (timeoutRef.current)
clearTimeout(ref) == IF ref = "pending" THEN "spent" ELSE ref

\* ----------------------------------------------- the promise continuation
\* mutant: compares the committed count without the attempt just settled
handleNextPoll_offByOne(s, cur, m) ==
    IF m # NoBudget /\ cur.attemptCount >= m
    THEN [state |-> dispatchAction(s, Act("MAX_ATTEMPTS_REACHED")),
          timer |-> FALSE]
    ELSE [state |-> s, timer |-> TRUE]

\* mutant: never gives up, whatever the budget
handleNextPoll_unbounded(s, cur, m) == [state |-> s, timer |-> TRUE]

\* mutant: gives up the retry instead of setting the timer
handleNextPoll_noTimer(s, cur, m) ==
    IF m # NoBudget /\ cur.attemptCount + 1 >= m
    THEN [state |-> dispatchAction(s, Act("MAX_ATTEMPTS_REACHED")),
          timer |-> FALSE]
    ELSE [state |-> s, timer |-> FALSE]

\* mutant: compares with maxAttempts also when it is null
handleNextPoll_nullBudget(s, cur, m) ==
    IF cur.attemptCount + 1 >= m
    THEN [state |-> dispatchAction(s, Act("MAX_ATTEMPTS_REACHED")),
          timer |-> FALSE]
    ELSE [state |-> s, timer |-> TRUE]

\* handleNextPoll: budget check against the committed snapshot, else a timer
handleNextPoll(s, cur, m) ==
    IF m # NoBudget /\ cur.attemptCount + 1 >= m
    THEN [state |-> dispatchAction(s, Act("MAX_ATTEMPTS_REACHED")),
          timer |-> FALSE]
    ELSE [state |-> s, timer |-> TRUE]

\* mutant: a rejection is retried without being recorded
catchHandler_uncounted(s, cur, m, error) == handleNextPoll(s, cur, m)

\* .catch((error) => ...): also entered when the then-handler throws
catchHandler(s, cur, m, error) ==
    handleNextPoll(
        dispatchAction(s, ActWith("POLL_RESULT", ErrorWrapper(error))), cur, m)

\* validatorRef?.current(result.payload): reading .payload of undefined throws
validatorCall(v, result) ==
    IF result.kind = "undefined" THEN "throws" ELSE validator(v, result.val)

\* mutant: checks the budget before it asks the validator
thenHandler_budgetFirst(s, cur, m, v, result) ==
    LET s1 == dispatchAction(s, ActWith("POLL_RESULT", result))
        r == validatorCall(v, result)
    IN IF m # NoBudget /\ cur.attemptCount + 1 >= m
       THEN IF r = "throws" THEN catchHandler(s1, cur, m, "Exception")
            ELSE handleNextPoll(s1, cur, m)
       ELSE CASE r = "true" ->
                   [state |-> dispatchAction(s1, Act("VALIDATION_SUCCESS")),
                    timer |-> FALSE]
              [] r = "false" -> handleNextPoll(s1, cur, m)
              [] r = "throws" -> catchHandler(s1, cur, m, "Exception")

\* mutant: schedules the next poll also after the validator accepted
thenHandler_alwaysSchedules(s, cur, m, v, result) ==
    LET s1 == dispatchAction(s, ActWith("POLL_RESULT", result))
        r == validatorCall(v, result)
    IN CASE r = "true" ->
              [state |-> dispatchAction(s1, Act("VALIDATION_SUCCESS")),
               timer |-> TRUE]
         [] r = "false" -> handleNextPoll(s1, cur, m)
         [] r = "throws" -> catchHandler(s1, cur, m, "Exception")

\* .then((result) => ...)
thenHandler(s, cur, m, v, result) ==
    LET s1 == dispatchAction(s, ActWith("POLL_RESULT", result))
        r == validatorCall(v, result)
    IN CASE r = "true" ->
              [state |-> dispatchAction(s1, Act("VALIDATION_SUCCESS")),
               timer |-> FALSE]
         [] r = "false" -> handleNextPoll(s1, cur, m)
         [] r = "throws" -> catchHandler(s1, cur, m, "Exception")

\* dispatch(thunkActionRef.current).then(...).catch(...) once it settles
promiseChain(s, cur, m, v, o) ==
    IF o.settle = "resolved"
    THEN thenHandler(s, cur, m, v, o.value)
    ELSE catchHandler(s, cur, m, o.value.val)

\* mutant: performPoll without its guard
pollGuard_open(cur) == TRUE

\* performPoll's guard, read from stateRef.current
pollGuard(cur) == cur.isPollingJobActive

\* polling chains alive: a settlement turns an unsettled action into at most
\* one timer, a timer into at most one dispatch; only the effect adds a chain
Chains == InflightCount + PendingTimers

\* room left under the caps for one more dispatch
CanDispatch == hist.dispatched < MaxCount

\* the session is between two attempts: a timer pending, nothing in flight
Waiting ==
    state.isPollingJobActive /\ InflightCount = 0 /\ timeoutRef = "pending"

\* ----------------------------------------------------------------- steps
\* startPolling(): dispatchAction(START_POLLING)
startPolling ==
    /\ mounted
    /\ state' = dispatchAction(state, Act("START_POLLING"))
    /\ inflight' = [own |-> 0, stale |-> InflightCount]
    /\ hist' = [hist EXCEPT
                  !.run = CASE @ = "never" -> "single"
                            [] @ = "single" /\ op = "start" -> "double"
                            [] OTHER -> "other",
                  !.dispatched = 0, !.settled = 0, !.stopWaiting = FALSE]
    /\ op' = "start"
    /\ UNCHANGED <<stateRef, thunkActionRef, maxAttemptsRef, validatorRef,
                   timeoutRef, orphanTimers, mounted, call, ret>>

\* stopPolling(): clearTimeout(timeoutRef.current); dispatchAction(STOP_POLLING)
stopPolling ==
    /\ mounted
    /\ timeoutRef' = clearTimeout(timeoutRef)
    /\ state' = dispatchAction(state, Act("STOP_POLLING"))
    /\ hist' = [hist EXCEPT
                  !.run = CASE @ \in {"never", "unsent"} -> @
                            [] @ = "single" /\ hist.dispatched = 0 -> "unsent"
                            [] OTHER -> "other",
                  !.stopWaiting = @ \/ Waiting]
    /\ op' = "stop"
    /\ UNCHANGED <<stateRef, thunkActionRef, maxAttemptsRef, validatorRef,
                   orphanTimers, inflight, mounted, call, ret>>

\* One committed render: the effects run in declaration order.
\*   stateRef.current = state; the parameter refs take the supplied values;
\*   and, when isPollingJobActive changed, the poll effect's cleanup clears
\*   the timer and its body calls performPoll if the job is active.
Commit(a, m, v) ==
    LET depsChanged == state.isPollingJobActive # stateRef.isPollingJobActive
        polls == depsChanged /\ pollGuard(state)
    IN /\ mounted
       /\ polls => CanDispatch /\ Chains < MaxChains
       /\ stateRef' = state
       /\ thunkActionRef' = a
       /\ maxAttemptsRef' = m
       /\ validatorRef' = v
       /\ timeoutRef' = IF depsChanged THEN clearTimeout(timeoutRef)
                        ELSE timeoutRef
       /\ state' = IF polls THEN dispatchAction(state, Act("POLL_INIT"))
                   ELSE state
       /\ inflight' = IF polls THEN [inflight EXCEPT !.own = @ + 1]
                      ELSE inflight
       /\ hist' = [hist EXCEPT
                     !.dispatched = IF polls THEN @ + 1 ELSE @,
                     !.sent = IF polls THEN dispatch(a, v) ELSE @,
                     !.paramsChanged = @ \/ a # thunkActionRef
                                         \/ m # maxAttemptsRef
                                         \/ v # validatorRef]
       /\ UNCHANGED <<orphanTimers, mounted, call, ret>>

\* the render React schedules after a dispatchAction
Render ==
    /\ state # stateRef
    /\ Commit(thunkActionRef, maxAttemptsRef, validatorRef)
    /\ op' = "render"

\* the caller renders the hook again with other parameters
Rerender ==
    /\ \E p \in Params :
          /\ <<p.thunkAction, p.maxAttempts, p.validator>>
                # <<thunkActionRef, maxAttemptsRef, validatorRef>>
          /\ Commit(p.thunkAction, p.maxAttempts, p.validator)
    /\ op' = "rerender"

\* performPoll() called from a timer: guard, POLL_INIT, dispatch
performPoll ==
    LET polls == pollGuard(stateRef)
    IN /\ mounted => state = stateRef
       /\ polls => CanDispatch
       /\ state' = IF polls THEN dispatchAction(state, Act("POLL_INIT"))
                   ELSE state
       /\ inflight' = IF polls THEN [inflight EXCEPT !.own = @ + 1]
                      ELSE inflight
       /\ hist' = [hist EXCEPT
                     !.dispatched = IF polls THEN @ + 1 ELSE @,
                     !.sent = IF polls
                              THEN dispatch(thunkActionRef, validatorRef)
                              ELSE @]
       /\ op' = "timer"
       /\ UNCHANGED <<stateRef, thunkActionRef, maxAttemptsRef, validatorRef,
                      mounted, call, ret>>

\* a pending timer fires: the one timeoutRef.current names, or an orphan
TimerFire ==
    /\ \/ timeoutRef = "pending" /\ timeoutRef' = "spent"
          /\ UNCHANGED orphanTimers
       \/ orphanTimers > 0 /\ orphanTimers' = orphanTimers - 1
          /\ UNCHANGED timeoutRef
    /\ performPoll

\* an unsettled async action resolves or rejects: the then/catch chain runs;
\* timeoutRef.current = setTimeout(performPoll, ...) orphans a pending timer
Settle ==
    \E who \in {"own", "stale"}, o \in Outcomes :
       LET r == promiseChain(state, stateRef, maxAttemptsRef, validatorRef, o)
       IN /\ inflight[who] > 0
          /\ r.state.attemptCount <= MaxCount
          /\ hist.settled < MaxCount
          /\ inflight' = [inflight EXCEPT ![who] = @ - 1]
          /\ state' = r.state
          /\ timeoutRef' = IF r.timer THEN "pending" ELSE timeoutRef
          /\ orphanTimers' = IF r.timer /\ timeoutRef = "pending"
                             THEN orphanTimers + 1 ELSE orphanTimers
          /\ hist' = [hist EXCEPT
                        !.settled = @ + 1,
                        !.sent = IF InflightCount = 1 THEN NoDispatch ELSE @,
                        !.refusedOnly =
                            @ /\ (o.settle = "rejected"
                                  \/ validatorCall(validatorRef, o.value)
                                       = "false")]
          /\ op' = "settle"
          /\ UNCHANGED <<stateRef, thunkActionRef, maxAttemptsRef,
                         validatorRef, mounted, call, ret>>

\* the owning component is torn down: the poll effect's cleanup clears the
\* timer and the owner's cleanup calls stopPolling() (Posts.jsx), whose
\* dispatchAction reaches no render any more
Unmount ==
    /\ mounted
    /\ mounted' = FALSE
    /\ timeoutRef' = clearTimeout(timeoutRef)
    /\ hist' = [hist EXCEPT
                  !.run = CASE @ \in {"never", "unsent"} -> @
                            [] @ = "single" /\ hist.dispatched = 0 -> "unsent"
                            [] OTHER -> "other",
                  !.stopWaiting = @ \/ Waiting]
    /\ op' = "unmount"
    /\ UNCHANGED <<state, stateRef, thunkActionRef, maxAttemptsRef,
                   validatorRef, orphanTimers, inflight, call, ret>>

Next ==
    \/ startPolling
    \/ stopPolling
    \/ Render
    \/ Rerender
    \/ TimerFire
    \/ Settle
    \/ Unmount

Spec == Init /\ [][Next]_vars

\* One session: start() is called once and the parameters stay as given.
\* React runs the render it scheduled, a set timer fires, and every dispatched
\* action settles.
startOnce == hist.run = "never" /\ startPolling

LiveNext ==
    \/ startOnce
    \/ stopPolling
    \/ Render
    \/ TimerFire
    \/ Settle
    \/ Unmount

LiveSpec ==
    /\ Init
    /\ [][LiveNext]_vars
    /\ WF_vars(Render)
    /\ WF_vars(TimerFire)
    /\ WF_vars(Settle)

\* ------------------------------------------------ the adapters' functions
\* JavaScript values, as far as the adapters look at them: the type, and the
\* number, the characters, the items or the fields (name, value) of the value
Js(t, n, chars, items, fields) ==
    [t |-> t, n |-> n, chars |-> chars, items |-> items, fields |-> fields]

JsNull == Js("null", 0, <<>>, <<>>, <<>>)
JsUndefined == Js("undefined", 0, <<>>, <<>>, <<>>)
JsBoolean(b) == Js(IF b THEN "true" ELSE "false", 0, <<>>, <<>>, <<>>)
JsNumber(n) == Js("number", n, <<>>, <<>>, <<>>)
JsString(chars) == Js("string", 0, chars, <<>>, <<>>)
JsArray(items) == Js("array", 0, <<>>, items, <<>>)
JsObject(fields) == Js("object", 0, <<>>, <<>>, fields)

\* !x is false
truthy(x) ==
    CASE x.t \in {"null", "undefined", "false"} -> FALSE
      [] x.t = "number" -> x.n # 0
      [] x.t = "string" -> x.chars # <<>>
      [] OTHER -> TRUE

isArray(x) == x.t = "array"

RECURSIVE field(_, _)
field(fields, name) ==
    IF fields = <<>> THEN JsUndefined
    ELSE IF Head(fields)[1] = name THEN Head(fields)[2]
    ELSE field(Tail(fields), name)

\* x?.name
optionalChain(x, name) ==
    CASE x.t \in {"array", "string"} ->
            IF name = "length" THEN JsNumber(Len(x.chars) + Len(x.items))
            ELSE JsUndefined
      [] x.t = "object" -> field(x.fields, name)
      [] OTHER -> JsUndefined

Returns(value) == [kind |-> "return", value |-> value]
Throws(error) == [kind |-> "throw", value |-> error]

\* mutant: accepts from 101 posts on
usePostThunkPoll_validator_atLeast(posts) ==
    Returns(JsBoolean(isArray(posts) /\ Len(posts.items) >= 101))

\* usePostThunkPoll.js: Array.isArray(posts) && posts.length > 101
usePostThunkPoll_validator(posts) ==
    Returns(JsBoolean(isArray(posts) /\ Len(posts.items) > 101))

\* the other usePostThunkPoll: postsValidator
postsValidator(payload) ==
    IF ~truthy(payload) \/ ~isArray(payload)
    THEN Returns(JsBoolean(FALSE))
    ELSE Returns(JsBoolean(Len(payload.items) > 101))

\* usePostThunkPoll.js: postsCount
postsCount(lastResult) ==
    IF truthy(lastResult) /\ isArray(optionalChain(lastResult, "payload"))
    THEN Returns(optionalChain(optionalChain(lastResult, "payload"),
                               "length"))
    ELSE Returns(JsNumber(0))

\* the other usePostThunkPoll: pollingState.lastResult?.payload?.length || 0
pollingState_postsCount(lastResult) ==
    LET length == optionalChain(optionalChain(lastResult, "payload"),
                                "length")
    IN IF truthy(length) THEN Returns(length) ELSE Returns(JsNumber(0))

\* mutant: leaves the text as it is
trim_identity(chars) == chars

\* String.prototype.trim
RECURSIVE trim(_)
trim(chars) ==
    IF chars = <<>> THEN chars
    ELSE IF Head(chars) = " " THEN trim(Tail(chars))
    ELSE IF chars[Len(chars)] = " "
         THEN trim(SubSeq(chars, 1, Len(chars) - 1))
    ELSE chars

\* (post) => post?.body && post.body.trim() !== ""
bodyFilled(post) ==
    LET body == optionalChain(post, "body")
    IN IF ~truthy(body) THEN Returns(body)
       ELSE IF body.t # "string" THEN Throws(JsString(<<"TypeError">>))
       ELSE Returns(JsBoolean(trim(body.chars) # <<>>))

\* Array.prototype.every: stops at the first element the callback refuses
RECURSIVE every(_)
every(items) ==
    IF items = <<>> THEN Returns(JsBoolean(TRUE))
    ELSE LET r == bodyFilled(Head(items))
         IN IF r.kind = "throw" THEN r
            ELSE IF ~truthy(r.value) THEN Returns(JsBoolean(FALSE))
            ELSE every(Tail(items))

\* usePostDetailsThunkPoll: if (!data) return false; return data.every(...)
usePostDetailsThunkPoll_validator(data) ==
    IF ~truthy(data) THEN Returns(JsBoolean(FALSE))
    ELSE IF ~isArray(data) THEN Throws(JsString(<<"TypeError">>))
    ELSE every(data.items)

\* what pollingReducer hands back to its caller
reducerCall(s, action) ==
    LET r == pollingReducer(s, action)
    IN IF "error" \in DOMAIN r THEN Throws(r) ELSE Returns(r)

\* ---- the inputs the functions are tried on, each named by a descriptor
SeqsUpTo(S, n) == UNION {[1..k -> S] : k \in 0..n}

\* the array f(1), ..., f(n)
arrayOf(f, n) == [i \in 1..n |-> f[i]]

PostItemKinds ==
    {<<k, <<>>>> : k \in {"null", "undefined", "noBody", "bodyNull",
                          "bodyUndefined", "bodyNumber"}}
       \cup {<<"body", c>> : c \in SeqsUpTo({" ", "a"}, MaxBodyLen)}

Post(extra) == JsObject(<<<<"id", JsNumber(1)>>>> \o extra)

postItem(d) ==
    CASE d[1] = "null" -> JsNull
      [] d[1] = "undefined" -> JsUndefined
      [] d[1] = "noBody" -> Post(<<>>)
      [] d[1] = "bodyNull" -> Post(<<<<"body", JsNull>>>>)
      [] d[1] = "bodyUndefined" -> Post(<<<<"body", JsUndefined>>>>)
      [] d[1] = "bodyNumber" -> Post(<<<<"body", JsNumber(5)>>>>)
      [] d[1] = "body" ->
            Post(<<<<"body", JsString(arrayOf(d[2], Len(d[2])))>>>>)

PostsPayloadKinds ==
    {<<"null", 0>>, <<"undefined", 0>>, <<"number", 123>>, <<"string", 6>>,
     <<"object", 200>>}
       \cup {<<"array", n>> : n \in 0..MaxPosts}

postsPayload(d) ==
    CASE d[1] = "null" -> JsNull
      [] d[1] = "undefined" -> JsUndefined
      [] d[1] = "number" -> JsNumber(d[2])
      [] d[1] = "string" -> JsString(arrayOf([i \in 1..d[2] |-> "s"], d[2]))
      [] d[1] = "object" -> JsObject(<<<<"length", JsNumber(d[2])>>>>)
      [] d[1] = "array" ->
            JsArray(arrayOf([i \in 1..d[2] |-> Post(<<>>)], d[2]))

DetailsPayloadKinds ==
    {<<k, <<>>>> : k \in {"null", "undefined", "object"}}
       \cup {<<"array", items>> : items \in SeqsUpTo(PostItemKinds, MaxDetails)}

detailsPayload(d) ==
    CASE d[1] = "null" -> JsNull
      [] d[1] = "undefined" -> JsUndefined
      [] d[1] = "object" -> Post(<<>>)
      [] d[1] = "array" ->
            JsArray(arrayOf([i \in 1..Len(d[2]) |-> postItem(d[2][i])],
                            Len(d[2])))

LastResultKinds ==
    {<<"null", <<"null", 0>>>>, <<"error", <<"null", 0>>>>}
       \cup {<<"payload", d>> : d \in PostsPayloadKinds}

lastResultOf(d) ==
    CASE d[1] = "null" -> JsNull
      [] d[1] = "error" -> JsObject(<<<<"error", JsString(<<"e">>)>>>>)
      [] d[1] = "payload" -> JsObject(<<<<"payload", postsPayload(d[2])>>>>)

ReducerStates ==
    [isPollingJobActive : BOOLEAN, isPolling : BOOLEAN,
     attemptCount : 0..MaxCount,
     lastResult : {NullResult, Wrapper("good")},
     validationStatus : {Null, "success", "max_attempts_reached"}]

ReducerActions ==
    {Act(t) : t \in ActionTypes \cup {"UNKNOWN_ACTION", "RESET_POLLING"}}
       \cup {ActWith("POLL_RESULT", Wrapper("bad")),
             ActWith("POLL_RESULT", ErrorWrapper("NetworkError"))}

engineVars == <<state, stateRef, thunkActionRef, maxAttemptsRef, validatorRef,
                timeoutRef, orphanTimers, inflight, mounted, op, hist>>

\* ---- one step per function: it is called once, on one input
callReducer ==
    /\ call = NoCall
    /\ \E s \in ReducerStates, action \in ReducerActions :
          /\ call' = [fn |-> "pollingReducer", state |-> s, action |-> action]
          /\ ret' = reducerCall(s, action)
          /\ UNCHANGED engineVars

callValidator ==
    /\ call = NoCall
    /\ \E d \in PostsPayloadKinds :
          /\ call' = [fn |-> "validator", arg |-> postsPayload(d)]
          /\ ret' = usePostThunkPoll_validator(postsPayload(d))
          /\ UNCHANGED engineVars

callPostsValidator ==
    /\ call = NoCall
    /\ \E d \in PostsPayloadKinds :
          /\ call' = [fn |-> "postsValidator", arg |-> postsPayload(d)]
          /\ ret' = postsValidator(postsPayload(d))
          /\ UNCHANGED engineVars

callDetailsValidator ==
    /\ call = NoCall
    /\ \E d \in DetailsPayloadKinds :
          /\ call' = [fn |-> "detailsValidator", arg |-> detailsPayload(d)]
          /\ ret' = usePostDetailsThunkPoll_validator(detailsPayload(d))
          /\ UNCHANGED engineVars

callPostsCount ==
    /\ call = NoCall
    /\ \E d \in LastResultKinds :
          /\ call' = [fn |-> "postsCount", arg |-> lastResultOf(d)]
          /\ ret' = postsCount(lastResultOf(d))
          /\ UNCHANGED engineVars

callPollingStatePostsCount ==
    /\ call = NoCall
    /\ \E d \in LastResultKinds :
          /\ call' = [fn |-> "pollingState.postsCount",
                      arg |-> lastResultOf(d)]
          /\ ret' = pollingState_postsCount(lastResultOf(d))
          /\ UNCHANGED engineVars

CallNext ==
    \/ callReducer
    \/ callValidator
    \/ callPostsValidator
    \/ callDetailsValidator
    \/ callPostsCount
    \/ callPollingStatePostsCount

CallSpec == Init /\ [][CallNext]_vars

TypeOK ==
    /\ state.attemptCount \in 0..MaxCount
    /\ Chains \in 0..MaxChains

\* ------------------------------------------------------------ properties
\* the session was stopped and not started again: inactive, no outcome
StoppedSession ==
    mounted /\ ~state.isPollingJobActive /\ state.validationStatus = Null

\* C1: when stop() was called after an attempt's dispatch and before its
\* settlement, the settlement changes neither attemptCount nor lastResult
\* (no field of the state at all) and sets no timer for a further attempt.
C1_CancellationInert ==
    [][(op' = "settle" /\ StoppedSession /\ inflight'.own < inflight.own)
         => /\ state' = state
            /\ timeoutRef' = timeoutRef
            /\ orphanTimers' = orphanTimers]_vars

\* a session started once, never stopped, with the parameters it began with,
\* a finite budget, and only refused payloads or rejections so far
ExhaustRun ==
    /\ hist.run = "single"
    /\ hist.refusedOnly
    /\ ~hist.paramsChanged
    /\ maxAttemptsRef # NoBudget

\* C2: in such a session with maxAttempts = M the async action is dispatched
\* at most M times; no outcome is set before the M-th settlement; once the
\* M-th attempt has settled the session is inactive with validationStatus
\* max_attempts_reached, attemptCount = M, exactly M dispatches, and nothing
\* is left that could dispatch again.
C2_ExhaustionBoundary ==
    ExhaustRun =>
       /\ hist.dispatched <= maxAttemptsRef
       /\ hist.settled <= maxAttemptsRef
       /\ hist.settled < maxAttemptsRef => state.validationStatus = Null
       /\ hist.settled = maxAttemptsRef =>
             /\ state.validationStatus = "max_attempts_reached"
             /\ ~state.isPollingJobActive
             /\ state.attemptCount = maxAttemptsRef
             /\ hist.dispatched = maxAttemptsRef
             /\ Chains = 0

C2_Witness ==
    /\ ExhaustRun
    /\ maxAttemptsRef = 2
    /\ hist.settled = 2
    /\ state.validationStatus = "max_attempts_reached"
    /\ stateRef = state

\* C3: attemptCount equals the number of attempts that settled since start(),
\* whatever the outcome of each attempt was.
C3_MonotonicAttempts == mounted => state.attemptCount = hist.settled

\* C4: at most one async action is in flight at any time.
C4_StrictlySequential == InflightCount <= 1

\* C5: after the teardown no async action is dispatched any more.
C5_TeardownSafety == [][~mounted => hist'.dispatched = hist.dispatched]_vars

\* C6: right after start() the state is attemptCount = 0, validationStatus =
\* null, lastResult = null, isPolling = false, isPollingJobActive = true,
\* whatever it was before, and start() itself has dispatched no attempt.
C6_ResetOnStart ==
    op = "start" =>
       /\ state.attemptCount = 0
       /\ state.validationStatus = Null
       /\ state.lastResult = NullResult
       /\ state.isPolling = FALSE
       /\ state.isPollingJobActive = TRUE
       /\ inflight.own = 0

C6_Witness ==
    /\ op = "start"
    /\ stateRef.validationStatus = "max_attempts_reached"
    /\ stateRef.attemptCount = 2
    /\ stateRef.lastResult # NullResult

\* C7: after start() on a session that was active, a first attempt of the
\* restarted session is scheduled: a timer is pending or the poll effect is
\* due to run at the next render.
C7_RestartSchedules ==
    (op = "start" /\ stateRef.isPollingJobActive)
       => \/ PendingTimers > 0
          \/ state.isPollingJobActive # stateRef.isPollingJobActive

\* C8: once stop() was called during the interval wait, the async action is
\* not dispatched again until start() is called.
C8_StopCancelsTimer ==
    [][(hist.stopWaiting /\ hist'.stopWaiting)
         => hist'.dispatched = hist.dispatched]_vars

C10_SuccessPriority ==
    (/\ op = "settle"
     /\ mounted
     /\ state.lastResult.kind = "result"
     /\ validator(validatorRef, state.lastResult.val) = "true")
       => /\ state.validationStatus = "success"
          /\ ~state.isPollingJobActive

C10_Witness ==
    /\ op = "settle"
    /\ hist.run = "single"
    /\ ~hist.paramsChanged
    /\ maxAttemptsRef = 2
    /\ state.attemptCount = 2
    /\ state.lastResult = Wrapper("good")
    /\ state.validationStatus = "success"

\* a session started once, never stopped, with the parameters it began with
PlainRun == hist.run = "single" /\ ~hist.paramsChanged

\* the payload the last settlement resolved with is one the validator accepts
AcceptedLast ==
    /\ state.lastResult.kind = "result"
    /\ validator(validatorRef, state.lastResult.val) = "true"

\* C11: when the validator accepts the payload of the first attempt, the
\* session is over after that one attempt: attemptCount = 1, validationStatus
\* = success, isPollingJobActive = false, lastResult is that result, no timer
\* is pending and the async action was dispatched once and never again.
C11_ImmediateSuccess ==
    (PlainRun /\ hist.settled = 1 /\ AcceptedLast)
       => /\ state.attemptCount = 1
          /\ state.validationStatus = "success"
          /\ ~state.isPollingJobActive
          /\ ~state.isPolling
          /\ PendingTimers = 0
          /\ InflightCount = 0
          /\ hist.dispatched = 1

C11_Witness ==
    /\ PlainRun
    /\ hist.settled = 1
    /\ state.lastResult = Wrapper("good")
    /\ state.validationStatus = "success"
    /\ stateRef = state

\* the step is the settlement of an attempt with outcome o
SettledWith(o) ==
    /\ op' = "settle"
    /\ mounted
    /\ LET r == promiseChain(state, stateRef, maxAttemptsRef, validatorRef, o)
       IN /\ state' = r.state
          /\ r.timer <=> PendingTimers' = PendingTimers + 1

\* C12: a resolved attempt leaves lastResult = the resolved result, a rejected
\* one lastResult = {error}; either raises attemptCount by 1 and clears
\* isPolling; a rejection ends the session only with max_attempts_reached.
C12_AttemptResult ==
    [][\A o \in Outcomes :
          SettledWith(o)
             => /\ state'.lastResult = o.value
                /\ state'.attemptCount = state.attemptCount + 1
                /\ ~state'.isPolling
                /\ o.settle = "rejected"
                      => state'.validationStatus
                            \in {state.validationStatus,
                                 "max_attempts_reached"}]_vars

\* C13: when every earlier attempt of the session was rejected (or refused)
\* and attempt k resolves with a payload the validator accepts, the session
\* ends with attemptCount = k and validationStatus = success, k <= maxAttempts.
C13_ErrorThenSuccess ==
    [][(PlainRun /\ hist.refusedOnly /\ op' = "settle" /\ AcceptedLast')
          => /\ state'.validationStatus = "success"
             /\ ~state'.isPollingJobActive
             /\ state'.attemptCount = hist'.settled
             /\ hist'.dispatched = hist'.settled
             /\ maxAttemptsRef # NoBudget
                   => state'.attemptCount <= maxAttemptsRef
             /\ Chains' = 0]_vars

C13_Witness ==
    /\ PlainRun
    /\ op = "settle"
    /\ maxAttemptsRef = 2
    /\ stateRef.lastResult = ErrorWrapper("NetworkError")
    /\ state.lastResult = Wrapper("good")
    /\ state.attemptCount = 2
    /\ state.validationStatus = "success"

\* C14: when the validator throws on a resolved payload, the engine does not
\* treat it as a fetch failure: lastResult is not {error}, the attempt is not
\* counted a second time and no retry timer is set.
C14_ValidatorThrowNotCaught ==
    [][SettledWith([settle |-> "resolved", value |-> Wrapper("poison")])
          => /\ state'.lastResult.kind # "error"
             /\ state'.attemptCount <= state.attemptCount + 1
             /\ PendingTimers' = PendingTimers]_vars

\* C15: between two start() calls validationStatus, once set, keeps its value.
C15_StatusSetOnce ==
    [][(op' # "start" /\ state.validationStatus # Null)
          => state'.validationStatus = state.validationStatus]_vars

\* C16: isPollingJobActive turns true only by start(); it turns false only by
\* stop(), or by the settlement at which the validator accepts, or by the
\* settlement at which attemptCount reaches maxAttempts; an active job has
\* been started and has no outcome, and a session started and never stopped
\* is active until it has an outcome.
C16_ActiveFlag ==
    [][/\ (~state.isPollingJobActive /\ state'.isPollingJobActive)
             => op' = "start"
       /\ (state.isPollingJobActive /\ ~state'.isPollingJobActive)
             => \/ op' = "stop"
                \/ /\ op' = "settle"
                   /\ \/ /\ state'.validationStatus = "success"
                         /\ AcceptedLast'
                      \/ /\ state'.validationStatus = "max_attempts_reached"
                         /\ maxAttemptsRef # NoBudget
                         /\ state'.attemptCount >= maxAttemptsRef
       /\ state'.isPollingJobActive
             => state'.validationStatus = Null /\ hist'.run # "never"
       /\ (hist'.run = "single" /\ state'.validationStatus = Null)
             => state'.isPollingJobActive]_vars

C18_TerminalFreeze ==
    [][(state.validationStatus # Null /\ op' # "start")
          => /\ state' = state
             /\ hist'.dispatched = hist.dispatched]_vars

\* the settlement left a resolved payload the validator refuses, or a
\* rejection of the async action
RefusedLast ==
    \/ /\ state.lastResult.kind = "result"
       /\ validator(validatorRef, state.lastResult.val) = "false"
    \/ state.lastResult = ErrorWrapper("NetworkError")

\* C19: in a session started once and not stopped, a render that supplies
\* other parameters during the interval wait leaves the state and the pending
\* timer as they are; every attempt dispatches the action held by
\* thunkActionRef at that moment; and a settlement is judged by the validator
\* and the budget the refs hold then.
C19_ParamsTakeEffect ==
    [][hist.run = "single" =>
          /\ (op' = "rerender" /\ Waiting)
                => /\ state' = state
                   /\ timeoutRef' = timeoutRef
                   /\ hist'.dispatched = hist.dispatched
          /\ hist'.dispatched = hist.dispatched + 1
                => /\ hist'.sent.thunk = thunkActionRef'
                   /\ hist'.sent.validator = validatorRef'
          /\ (op' = "settle" /\ state'.lastResult.kind = "result")
                => (state'.validationStatus = "success" <=> AcceptedLast')
          /\ (op' = "settle" /\ RefusedLast')
                => /\ state'.attemptCount = state.attemptCount + 1
                   /\ state'.validationStatus = "max_attempts_reached"
                         <=> /\ maxAttemptsRef # NoBudget
                             /\ state'.attemptCount >= maxAttemptsRef]_vars

C19_Witness ==
    /\ hist.run = "single"
    /\ hist.paramsChanged
    /\ op = "settle"
    /\ thunkActionRef = "fetchPosts"
    /\ stateRef.lastResult = Wrapper("good")
    /\ stateRef.attemptCount = 1
    /\ stateRef.validationStatus = Null
    /\ state.lastResult = Wrapper("good")
    /\ state.attemptCount = 2
    /\ state.validationStatus = "success"

\* C20: an attempt that resolves is judged by the validator that was current
\* when it was dispatched, also when the caller replaced the validator while
\* the attempt was in flight.
C20_JudgedByDispatchValidator ==
    [][(/\ op' = "settle"
        /\ mounted
        /\ InflightCount = 1
        /\ state.isPollingJobActive
        /\ state'.lastResult.kind = "result")
          => (state'.validationStatus = "success"
                <=> validator(hist.sent.validator, state'.lastResult.val)
                       = "true")]_vars

\* C22: before the first start() the state is {isPollingJobActive: false,
\* isPolling: false, attemptCount: 0, lastResult: null, validationStatus:
\* null}, also in the committed snapshot, and nothing has been dispatched or
\* scheduled, whatever parameters were supplied or replaced.
C22_NeverSelfStarts ==
    hist.run = "never" =>
       /\ state = [isPollingJobActive |-> FALSE, isPolling |-> FALSE,
                   attemptCount |-> 0, lastResult |-> NullResult,
                   validationStatus |-> Null]
       /\ stateRef = state
       /\ hist.dispatched = 0
       /\ hist.sent.thunk = "none"
       /\ Chains = 0

C22_Witness ==
    /\ hist.run = "never"
    /\ hist.paramsChanged
    /\ op = "rerender"
    /\ maxAttemptsRef = 1

\* C27: when the first start() is followed by stop() before an attempt was
\* dispatched, no attempt is dispatched for that session: attemptCount stays
\* 0, isPolling stays false, nothing is in flight and no timer is pending.
C27_InactiveGuard ==
    hist.run = "unsent" =>
       /\ hist.dispatched = 0
       /\ hist.sent.thunk = "none"
       /\ Chains = 0
       /\ state.attemptCount = 0
       /\ ~state.isPolling
       /\ mounted => ~state.isPollingJobActive

C27_Witness ==
    /\ hist.run = "unsent"
    /\ mounted
    /\ op = "rerender"
    /\ stateRef = state

\* C28: with a fixed maxAttempts = M >= 1, attemptCount <= M in every state
\* and at most M attempts are dispatched between two start() calls.
C28_BudgetInvariant ==
    (~hist.paramsChanged /\ maxAttemptsRef # NoBudget) =>
       /\ state.attemptCount <= maxAttemptsRef
       /\ hist.dispatched <= maxAttemptsRef

\* C30: two start() calls in a row, made before any attempt was dispatched,
\* lead to two dispatches of the async action by the time the session has
\* ended with validationStatus = success.
C30_DoubleStartPollsTwice ==
    (hist.run = "double" /\ state.validationStatus = "success")
       => hist.dispatched = 2

\* the session is over: stopped, or ended with an outcome
SessionOver ==
    /\ ~state.isPollingJobActive
    /\ state.validationStatus # Null \/ hist.run # "single"

\* C29: a started session with a finite maxAttempts, whose actions all
\* settle and whose timers all fire, and which is not started again, is
\* eventually inactive: stopped, or ended with validationStatus success or
\* max_attempts_reached (the state of a torn-down hook is not observed).
C29_Termination ==
    (mounted /\ state.isPollingJobActive /\ maxAttemptsRef # NoBudget)
       ~> (~mounted \/ SessionOver)

C29_Witness ==
    /\ hist.run = "single"
    /\ maxAttemptsRef = 2
    /\ state.attemptCount = 2
    /\ hist.dispatched = 2
    /\ state.validationStatus = "max_attempts_reached"
    /\ SessionOver

\* C21: pollingReducer returns a state for each of the six action types
\* START_POLLING, STOP_POLLING, POLL_INIT, POLL_RESULT, VALIDATION_SUCCESS,
\* MAX_ATTEMPTS_REACHED; for any other type it throws and returns no state.
C21_ReducerClosed ==
    call.fn = "pollingReducer" =>
       IF call.action.type \in {"START_POLLING", "STOP_POLLING", "POLL_INIT",
                                "POLL_RESULT", "VALIDATION_SUCCESS",
                                "MAX_ATTEMPTS_REACHED"}
       THEN /\ ret.kind = "return"
            /\ DOMAIN ret.value = DOMAIN call.state
       ELSE /\ ret.kind = "throw"
            /\ ret.value.error = "Unhandled action type"
            /\ ret.value.type = call.action.type

C21_Witness ==
    /\ call.fn = "pollingReducer"
    /\ call.action.type = "UNKNOWN_ACTION"
    /\ call.state.isPollingJobActive
    /\ ret.kind = "throw"

NonBlank(body) ==
    body.t = "string" /\ \E k \in 1..Len(body.chars) : body.chars[k] # " "

\* a payload of the kind C24 speaks about: null, undefined, or an array whose
\* elements are null, undefined or posts with a missing, null, undefined or
\* text body
PlainDetails(data) ==
    \/ data.t \in {"null", "undefined"}
    \/ /\ data.t = "array"
       /\ \A i \in 1..Len(data.items) :
             \/ data.items[i].t \in {"null", "undefined"}
             \/ /\ data.items[i].t = "object"
                /\ field(data.items[i].fields, "body").t
                      \in {"null", "undefined", "string"}

\* C24: on such a payload the details validator returns, without throwing,
\* true exactly when the payload is an array whose every element is a post
\* with a body that is not blank; so true for the empty array and false for
\* null and undefined.
C24_FieldCompletenessValidator ==
    (call.fn = "detailsValidator" /\ PlainDetails(call.arg)) =>
       /\ ret.kind = "return"
       /\ ret.value.t \in {"true", "false"}
       /\ ret.value.t = "true"
             <=> /\ call.arg.t = "array"
                 /\ \A i \in 1..Len(call.arg.items) :
                       /\ call.arg.items[i].t = "object"
                       /\ NonBlank(field(call.arg.items[i].fields, "body"))

C24_Witness ==
    /\ call.fn = "detailsValidator"
    /\ call.arg.t = "array"
    /\ Len(call.arg.items) = 2
    /\ field(call.arg.items[1].fields, "body") = JsString(<<" ", "a">>)
    /\ ret.kind = "return"
    /\ ret.value.t = "true"

\* C25: postsCount is the length of lastResult.payload when lastResult exists
\* and its payload is an array, and 0 otherwise.
C25_DerivedCount ==
    call.fn \in {"postsCount", "pollingState.postsCount"} =>
       /\ ret.kind = "return"
       /\ ret.value.t = "number"
       /\ ret.value.n =
             IF field(call.arg.fields, "payload").t = "array"
             THEN Len(field(call.arg.fields, "payload").items)
             ELSE 0

\* C26: the posts validator returns true for every array of more than 10
\* items.
C26_AcceptsMoreThanTen ==
    (/\ call.fn \in {"validator", "postsValidator"}
     /\ call.arg.t = "array"
     /\ Len(call.arg.items) > 10)
       => (ret.kind = "return" /\ ret.value.t = "true")

\* the budget is not used up by the attempts counted so far
BudgetLeft ==
    maxAttemptsRef = NoBudget \/ state.attemptCount < maxAttemptsRef

\* C31: in a session started once and not stopped, an attempt that settles
\* without acceptance and with budget left dispatches nothing itself: the
\* session stays active with isPolling = false, nothing in flight and exactly
\* one timer pending, the one timeoutRef names, and stays so until that timer
\* fires; a later attempt is in flight only once that timer has fired.
C31_RetryWaitsForInterval ==
    hist.run = "single" =>
       /\ (op = "settle" /\ ~AcceptedLast /\ BudgetLeft)
             => /\ hist.dispatched = hist.settled
                /\ state.validationStatus = Null
       /\ (hist.settled >= 1 /\ hist.dispatched = hist.settled
             /\ state.validationStatus = Null)
             => /\ state.isPollingJobActive
                /\ ~state.isPolling
                /\ InflightCount = 0
                /\ timeoutRef = "pending"
                /\ PendingTimers = 1
       /\ (hist.settled >= 1 /\ hist.dispatched > hist.settled)
             => /\ hist.dispatched = hist.settled + 1
                /\ timeoutRef = "spent"
                /\ PendingTimers = 0

C31_Witness ==
    /\ hist.run = "single"
    /\ op = "timer"
    /\ maxAttemptsRef = 2
    /\ state.lastResult = Wrapper("bad")
    /\ stateRef.attemptCount = 1
    /\ hist.dispatched = 2
    /\ InflightCount = 1

\* C32: right after start() the state is active with isPolling = false and
\* attemptCount = 0 and no attempt of the session has been dispatched; the
\* first attempt is dispatched by the render that follows, which commits that
\* fresh active state as the snapshot the caller sees.
C32_StartIsAsynchronous ==
    /\ op = "start"
          => /\ state.isPollingJobActive
             /\ ~state.isPolling
             /\ state.attemptCount = 0
             /\ hist.dispatched = 0
             /\ inflight.own = 0
    /\ (hist.run = "single" /\ hist.dispatched = 1 /\ state.isPolling
          /\ ~stateRef.isPolling)
          => /\ op \in {"render", "rerender"}
             /\ stateRef = [isPollingJobActive |-> TRUE, isPolling |-> FALSE,
                            attemptCount |-> 0, lastResult |-> NullResult,
                            validationStatus |-> Null]

C32_Witness ==
    /\ hist.run = "single"
    /\ op = "render"
    /\ hist.dispatched = 1
    /\ InflightCount = 1
    /\ state.isPolling
    /\ stateRef.isPollingJobActive
    /\ ~stateRef.isPolling

C34_OutcomeImpliesInactive ==
    /\ state.validationStatus # Null => ~state.isPollingJobActive
    /\ stateRef.validationStatus # Null => ~stateRef.isPollingJobActive

C34_Witness ==
    /\ state.validationStatus = "max_attempts_reached"
    /\ ~state.isPollingJobActive
    /\ InflightCount = 1
    /\ mounted

\* C35: whenever validationStatus = success, lastResult is a resolved result
\* with a payload the validator accepts (no error, no refused payload), until
\* the next start().
C35_SuccessKeepsResult ==
    (mounted /\ state.validationStatus = "success")
       => state.lastResult = Wrapper("good")

\* C36: with a fixed maxAttempts = M, whenever validationStatus =
\* max_attempts_reached, attemptCount = M.
C36_ExhaustedAtBudget ==
    (/\ mounted
     /\ ~hist.paramsChanged
     /\ maxAttemptsRef # NoBudget
     /\ state.validationStatus = "max_attempts_reached")
       => state.attemptCount = maxAttemptsRef

\* C37: at most one timer is pending at any time and it is the one
\* timeoutRef names; right after stop() no timer is pending.
C37_SingleTimer ==
    /\ PendingTimers <= 1
    /\ orphanTimers = 0
    /\ op = "stop" => PendingTimers = 0

\* C38: an attempt dispatched before the latest start() that settles after it
\* changes no field of the new session's state and sets no timer.
C38_SessionIsolation ==
    [][(op' = "settle" /\ mounted /\ inflight'.stale < inflight.stale)
          => /\ state' = state
             /\ PendingTimers' = PendingTimers]_vars

\* C39: with maxAttempts null or undefined validationStatus is never
\* max_attempts_reached; and with a validator that accepts nothing, a session
\* started once and not stopped stays active without an outcome, with the
\* next attempt always under way: an action in flight or a timer pending.
C39_NoBudgetNoExhaustion ==
    (~hist.paramsChanged /\ maxAttemptsRef = NoBudget) =>
       /\ state.validationStatus # "max_attempts_reached"
       /\ (hist.run = "single" /\ validatorRef = "acceptsNone")
             => /\ state.isPollingJobActive
                /\ state.validationStatus = Null
                /\ hist.dispatched >= 1 => Chains = 1

C39_Witness ==
    /\ ~hist.paramsChanged
    /\ maxAttemptsRef = NoBudget
    /\ hist.run = "single"
    /\ validatorRef = "acceptsNone"
    /\ state.attemptCount = 3
    /\ timeoutRef = "pending"

\* C40: an attempt whose action resolves with no value (the post-details
\* action with a falsy requestId) is counted exactly once.
C40_EmptyResolveCountedOnce ==
    [][SettledWith([settle |-> "resolved", value |-> Undefined])
          => state'.attemptCount = state.attemptCount + 1]_vars

====
